---- MODULE Spec2Model ----
(***************************************************************************)
(* Games CRUD backend: the request handlers of server/routes/games.py over *)
(* a games table and a persistence session, and the string validator of    *)
(* server/models/base.py with its two Category uses.                       *)
(***************************************************************************)
EXTENDS Integers, Sequences, FiniteSets, TLC

VARIABLES games, session, pc, req, resp, before, vin, vout

vars == <<games, session, pc, req, resp, before, vin, vout>>

(***************************************************************************)
(* Bounds.                                                                 *)
(***************************************************************************)
\* Game ids range over 1..MaxGames (the table holds at most MaxGames rows).
MaxGames == 2
\* The validator is handed every string of at most MaxLen characters, and
\* every run of at most MaxCore letters between two strings of at most MaxPad
\* characters.
MaxLen == 4
MaxPad == 1
MaxCore == 10

(***************************************************************************)
(* Values. A JSON / Python value is a tagged record: a string carries its  *)
(* characters in s, each character as its code point (ord), an integer its *)
(* value in n.  None is Python's None, and Absent marks a key that is not  *)
(* in the payload dict.                                                    *)
(***************************************************************************)
V(t, s, n) == [t |-> t, s |-> s, n |-> n]
None == V("none", << >>, 0)
Absent == V("absent", << >>, 0)
Str(s) == V("str", s, 0)
Num(n) == V("int", << >>, n)

\* The characters str.strip() removes, those with str.isspace(): U+0009 to
\* U+000D, U+001C to U+001F, U+0020, U+0085, U+00A0, U+1680, U+2000 to
\* U+200A, U+2028, U+2029, U+202F, U+205F, U+3000.
Whitespace ==
  (9 .. 13) \cup (28 .. 32) \cup {133, 160, 5760} \cup (8192 .. 8202)
    \cup {8232, 8233, 8239, 8287, 12288}

\* The rows of the publishers and categories tables (fixed: no handler of
\* routes/games.py writes them), and an id that is in neither of them.
Publishers == {1, 2}
Categories == {1}
PublisherIds == Publishers \cup {3}
CategoryIds == Categories \cup {2}

GameIds == 1 .. MaxGames

(***************************************************************************)
(* models/base.py                                                          *)
(***************************************************************************)
RECURSIVE lstrip(_)
lstrip(s) ==
  IF s = << >> THEN s
  ELSE IF Head(s) \in Whitespace THEN lstrip(Tail(s)) ELSE s

RECURSIVE rstrip(_)
rstrip(s) ==
  IF s = << >> THEN s
  ELSE IF s[Len(s)] \in Whitespace THEN rstrip(SubSeq(s, 1, Len(s) - 1)) ELSE s

\* value.strip()
strip(s) == rstrip(lstrip(s))

\* The outcome of a validator call: the returned value, or the ValueError.
Returned(value) ==
  [ok |-> TRUE, value |-> value, error |-> "", field |-> "", min |-> 0]
ValueError(text, field_name, min_length) ==
  [ok |-> FALSE, value |-> None, error |-> text, field |-> field_name,
   min |-> min_length]

\* The validator, had it returned the stripped string.
validate_string_length_stripped(field_name, value, min_length, allow_none) ==
  IF value.t = "none"
  THEN IF allow_none
       THEN Returned(value)
       ELSE ValueError("cannot be empty", field_name, 0)
  ELSE IF value.t # "str"
  THEN ValueError("must be a string", field_name, 0)
  ELSE IF Len(strip(value.s)) < min_length
  THEN ValueError("must be at least", field_name, min_length)
  ELSE Returned(Str(strip(value.s)))

\* BaseModel.validate_string_length
validate_string_length(field_name, value, min_length, allow_none) ==
  IF value.t = "none"
  THEN IF allow_none
       THEN Returned(value)
       ELSE ValueError("cannot be empty", field_name, 0)
  ELSE IF value.t # "str"
  THEN ValueError("must be a string", field_name, 0)
  ELSE IF Len(strip(value.s)) < min_length
  THEN ValueError("must be at least", field_name, min_length)
  ELSE Returned(value)

(***************************************************************************)
(* models/category.py                                                      *)
(***************************************************************************)
Category_validate_name(name) ==
  validate_string_length("Category name", name, 2, FALSE)

Category_validate_description(description) ==
  validate_string_length("Description", description, 10, TRUE)

(***************************************************************************)
(* The Game entity, the tables and the persistence session (models/).      *)
(***************************************************************************)
Fields == {"title", "description", "star_rating", "publisher_id", "category_id"}

Row(title, description, star_rating, publisher_id, category_id) ==
  [title |-> title, description |-> description, star_rating |-> star_rating,
   publisher_id |-> publisher_id, category_id |-> category_id]

\* Game's validators on title and description: both fields are required
\* strings, checked by the shared validator when the attribute is assigned.
Game_validate_title(title) ==
  validate_string_length("Game title", title, 1, FALSE)

Game_validate_description(description) ==
  validate_string_length("Description", description, 1, FALSE)

\* Game.to_dict(): the flat record of a row.
to_dict(id, row) ==
  [id |-> id, title |-> row.title, description |-> row.description,
   star_rating |-> row.star_rating, publisher_id |-> row.publisher_id,
   category_id |-> row.category_id]

NoGame == to_dict(0, Row(None, None, None, None, None))

\* The lookups, had they found a row for every integer.
Publisher_query_get_any(ident) == ident.t = "int"
Category_query_get_any(ident) == ident.t = "int"

\* Publisher.query.get(ident) / Category.query.get(ident) found a row.
Publisher_query_get(ident) == ident.t = "int" /\ ident.n \in Publishers
Category_query_get(ident) == ident.t = "int" /\ ident.n \in Categories

\* The session holds the uncommitted work of the request: per game id the
\* state of the loaded object (added or modified), or its deletion.
EmptySession == << >>
session_add(s, id, row) == (id :> [deleted |-> FALSE, row |-> row]) @@ s
session_delete(s, id, row) == (id :> [deleted |-> TRUE, row |-> row]) @@ s
rollback(s) == EmptySession

\* db.session.commit(): the table with the session's work written to it.
commit(g, s) ==
  LET gone == {i \in DOMAIN s : s[i].deleted}
      kept == (DOMAIN g \cup DOMAIN s) \ gone
  IN  [i \in kept |-> IF i \in DOMAIN s THEN s[i].row ELSE g[i]]

\* The ids a new row can get (the key is assigned by the database).
FreeIds(g) == GameIds \ DOMAIN g

(***************************************************************************)
(* routes/games.py                                                         *)
(***************************************************************************)
\* Game left outer joined to Publisher and to Category: every game row is in
\* the result, with 0 for a publisher or category that is not there.
get_games_base_query(g) ==
  { [id |-> i, game |-> g[i],
     publisher |-> IF Publisher_query_get(g[i].publisher_id)
                   THEN g[i].publisher_id.n ELSE 0,
     category |-> IF Category_query_get(g[i].category_id)
                  THEN g[i].category_id.n ELSE 0] : i \in DOMAIN g }

\* .filter(Game.id == id)
filter_id(q, id) == {r \in q : r.id = id}

Msg(text, field, min) == [text |-> text, field |-> field, min |-> min]
NoMsg == Msg("", "", 0)
\* str(e) of a ValueError raised by a validator
str(e) == Msg(e.error, e.field, e.min)

\* A response: the status, the "error" of the body, the game record of the
\* body, the list of the body (get_games), the "message" of the body.
Response(status, error, game, list, message) ==
  [status |-> status, error |-> error, game |-> game, list |-> list,
   message |-> message]
Error(status, error) == Response(status, error, NoGame, {}, "")
NoResponse == Response(0, NoMsg, NoGame, {}, "")

\* What a handler leaves: its response, the table, the session.
Result(r, g, s) == [resp |-> r, games |-> g, session |-> s]

\* `field in data` and len(data) for a dict payload
in(field, d) == d[field] # Absent
len(d) == Cardinality({f \in Fields : in(f, d)})
\* data.get(field)
dict_get(d, field) == IF in(field, d) THEN d[field] ELSE None

\* The test of the payload, had it let the empty dict through.
no_data_none_only(data) == data.kind = "none"

\* data is None or (isinstance(data, dict) and len(data) == 0)
no_data(data) == data.kind = "none" \/ (data.kind = "dict" /\ len(data.d) = 0)

\* The existence checks, had the category been looked up first.
check_references_category_first(d) ==
  IF ~Category_query_get(d.category_id) THEN "Category not found"
  ELSE IF ~Publisher_query_get(d.publisher_id) THEN "Publisher not found"
  ELSE ""

\* The two existence checks of create_game, publisher first: the message of
\* the 404, or "" when both rows are there.
check_references(d) ==
  IF ~Publisher_query_get(d.publisher_id) THEN "Publisher not found"
  ELSE IF ~Category_query_get(d.category_id) THEN "Category not found"
  ELSE ""

\* The new game, had star_rating defaulted to 0.
new_game_zero_rating(d) ==
  Row(d.title, d.description,
      IF in("star_rating", d) THEN d.star_rating ELSE Num(0),
      d.publisher_id, d.category_id)

\* Game(title=..., description=..., publisher_id=..., category_id=...,
\*      star_rating=data.get('star_rating'))
new_game(d) ==
  Row(d.title, d.description, dict_get(d, "star_rating"),
      d.publisher_id, d.category_id)

\* The assignment, had it been game.<field> = data.get(field).
update_field_always(game, d, field) ==
  [game EXCEPT ![field] = dict_get(d, field)]

\* if field in data: game.<field> = data[field]
update_field(game, d, field) ==
  IF in(field, d) THEN [game EXCEPT ![field] = d[field]] ELSE game

required_fields == <<"title", "description", "publisher_id", "category_id">>

\* The positions of required_fields the loop of create_game stops at.
missing(d) ==
  {i \in 1 .. Len(required_fields) :
     ~in(required_fields[i], d) \/ d[required_fields[i]] = None}
\* The reported field, had the loop run to its end.
last_missing(d) ==
  required_fields[CHOOSE i \in missing(d) : \A j \in missing(d) : j <= i]

first_missing(d) ==
  required_fields[CHOOSE i \in missing(d) : \A j \in missing(d) : i <= j]

get_games_result(g, s) ==
  Result(Response(200, NoMsg, NoGame,
                  {to_dict(r.id, r.game) : r \in get_games_base_query(g)}, ""),
         g, s)

get_game_result(g, s, id) ==
  LET game_query == filter_id(get_games_base_query(g), id)
  IN  IF game_query = {}
      THEN Result(Error(404, Msg("Game not found", "", 0)), g, s)
      ELSE LET r == CHOOSE x \in game_query : TRUE
           IN  Result(Response(200, NoMsg, to_dict(r.id, r.game), {}, ""), g, s)

create_game_result(g, s, data, new_id) ==
  LET d == data.d IN
  IF data.kind = "unparseable"
  THEN Result(Error(400, Msg("No data provided", "", 0)), g, s)
  ELSE IF no_data(data)
  THEN Result(Error(400, Msg("No data provided", "", 0)), g, s)
  ELSE IF data.kind # "dict"
  THEN \* `field not in data` raises TypeError on a number
       Result(Error(500, Msg("Internal server error", "", 0)), g, rollback(s))
  ELSE IF missing(d) # {}
  THEN Result(Error(400, Msg("Missing required field", first_missing(d), 0)), g, s)
  ELSE IF check_references(d) # ""
  THEN Result(Error(404, Msg(check_references(d), "", 0)), g, s)
  ELSE LET title == Game_validate_title(d.title)
           description == Game_validate_description(d.description)
       IN  IF ~title.ok
           THEN Result(Error(400, str(title)), g, rollback(s))
           ELSE IF ~description.ok
           THEN Result(Error(400, str(description)), g, rollback(s))
           ELSE LET g1 == commit(g, session_add(s, new_id, new_game(d)))
                    created_game ==
                      CHOOSE r \in filter_id(get_games_base_query(g1), new_id) : TRUE
                IN  Result(Response(201, NoMsg,
                                    to_dict(created_game.id, created_game.game),
                                    {}, ""),
                           g1, EmptySession)

update_game_result(g, s, id, data) ==
  LET d == data.d IN
  IF id \notin DOMAIN g
  THEN Result(Error(404, Msg("Game not found", "", 0)), g, s)
  ELSE IF data.kind = "unparseable"
  THEN Result(Error(400, Msg("No data provided", "", 0)), g, s)
  ELSE IF no_data(data)
  THEN Result(Error(400, Msg("No data provided", "", 0)), g, s)
  ELSE IF data.kind # "dict"
  THEN \* `'title' in data` raises TypeError on a number
       Result(Error(500, Msg("Internal server error", "", 0)), g, rollback(s))
  ELSE
  LET game == g[id]
      title == IF in("title", d) THEN Game_validate_title(d.title)
               ELSE Returned(game.title)
      game1 == update_field(game, d, "title")
      s1 == IF in("title", d) THEN session_add(s, id, game1) ELSE s
      description == IF in("description", d)
                     THEN Game_validate_description(d.description)
                     ELSE Returned(game1.description)
      game2 == update_field(game1, d, "description")
      s2 == IF in("description", d) THEN session_add(s1, id, game2) ELSE s1
      game3 == update_field(game2, d, "star_rating")
      s3 == IF in("star_rating", d) THEN session_add(s2, id, game3) ELSE s2
      game4 == update_field(game3, d, "publisher_id")
      s4 == IF in("publisher_id", d) THEN session_add(s3, id, game4) ELSE s3
      game5 == update_field(game4, d, "category_id")
      s5 == IF in("category_id", d) THEN session_add(s4, id, game5) ELSE s4
  IN  IF ~title.ok
      THEN Result(Error(400, str(title)), g, rollback(s))
      ELSE IF ~description.ok
      THEN Result(Error(400, str(description)), g, rollback(s1))
      ELSE IF in("publisher_id", d) /\ ~Publisher_query_get(d.publisher_id)
      THEN Result(Error(404, Msg("Publisher not found", "", 0)), g, s3)
      ELSE IF in("category_id", d) /\ ~Category_query_get(d.category_id)
      THEN Result(Error(404, Msg("Category not found", "", 0)), g, s4)
      ELSE LET g1 == commit(g, s5)
               updated_game ==
                 CHOOSE r \in filter_id(get_games_base_query(g1), id) : TRUE
           IN  Result(Response(200, NoMsg,
                               to_dict(updated_game.id, updated_game.game),
                               {}, ""),
                      g1, EmptySession)

\* delete_game, had it answered without the commit.
delete_game_result_no_commit(g, s, id) ==
  IF id \notin DOMAIN g
  THEN Result(Error(404, Msg("Game not found", "", 0)), g, s)
  ELSE Result(Response(200, NoMsg, NoGame, {}, "Game deleted successfully"),
              g, session_delete(s, id, g[id]))

delete_game_result(g, s, id) ==
  IF id \notin DOMAIN g
  THEN Result(Error(404, Msg("Game not found", "", 0)), g, s)
  ELSE Result(Response(200, NoMsg, NoGame, {}, "Game deleted successfully"),
              commit(g, session_delete(s, id, g[id])), EmptySession)

(***************************************************************************)
(* Requests.                                                               *)
(***************************************************************************)
\* "X", "Z" and "Y" * 10
TitleX == Str(<<88>>)
TitleZ == Str(<<90>>)
DescriptionY == Str([i \in 1 .. 10 |-> 89])

\* The payload dicts: per key, not there, null, or a value.
Dicts ==
  [title : {Absent, None, TitleX, TitleZ, Num(7)},
   description : {Absent, None, DescriptionY},
   star_rating : {Absent, None, Num(5)},
   publisher_id : {Absent, None} \cup {Num(n) : n \in PublisherIds},
   category_id : {Absent, None} \cup {Num(n) : n \in CategoryIds}]

EmptyDict == [f \in Fields |-> Absent]

\* request.get_json(): a dict, None (no body), an exception (a body that is
\* not JSON), or a JSON number.
Payloads ==
  {[kind |-> "dict", d |-> d] : d \in Dicts}
    \cup {[kind |-> k, d |-> EmptyDict] : k \in {"none", "unparseable", "number"}}

NoPayload == [kind |-> "none", d |-> EmptyDict]

Request(op, id, data) == [op |-> op, id |-> id, data |-> data]
NoRequest == Request("", 0, NoPayload)

NoInput == [fn |-> "", field |-> "", value |-> None, min |-> 0, allow |-> FALSE]

Init ==
  /\ games = << >>
  /\ session = EmptySession
  /\ pc = "idle"
  /\ req = NoRequest
  /\ resp = NoResponse
  /\ before = << >>
  /\ vin = NoInput
  /\ vout = Returned(None)

\* A handler has run on a request: the table and the session are as it left
\* them when it returned its response.
Handled(request, result) ==
  /\ pc' = "responded"
  /\ req' = request
  /\ before' = games
  /\ games' = result.games
  /\ session' = result.session
  /\ resp' = result.resp
  /\ UNCHANGED <<vin, vout>>

get_games ==
  /\ pc = "idle"
  /\ Handled(Request("get_games", 0, NoPayload), get_games_result(games, session))

get_game ==
  /\ pc = "idle"
  /\ \E id \in GameIds :
       Handled(Request("get_game", id, NoPayload),
               get_game_result(games, session, id))

create_game ==
  /\ pc = "idle"
  /\ \E data \in Payloads :
       \E new_id \in (IF FreeIds(games) = {} THEN {0} ELSE FreeIds(games)) :
         LET result == create_game_result(games, session, data, new_id)
         IN  /\ result.resp.status = 201 => new_id # 0
             /\ Handled(Request("create_game", 0, data), result)

update_game ==
  /\ pc = "idle"
  /\ \E id \in GameIds, data \in Payloads :
       Handled(Request("update_game", id, data),
               update_game_result(games, session, id, data))

delete_game ==
  /\ pc = "idle"
  /\ \E id \in GameIds :
       Handled(Request("delete_game", id, NoPayload),
               delete_game_result(games, session, id))

\* The end of the request: the request-scoped session is released, and what
\* it held uncommitted is discarded.
teardown_request ==
  /\ pc = "responded"
  /\ pc' = "idle"
  /\ session' = rollback(session)
  /\ req' = NoRequest
  /\ resp' = NoResponse
  /\ before' = games
  /\ UNCHANGED <<games, vin, vout>>

Next ==
  \/ get_games
  \/ get_game
  \/ create_game
  \/ update_game
  \/ delete_game
  \/ teardown_request

Spec == Init /\ [][Next]_vars

(***************************************************************************)
(* The validator on its own: every input within the bounds is an initial   *)
(* state, and a call of the validator moves it to its outcome.             *)
(***************************************************************************)
\* "a", " ", "\r" and the no-break space U+00A0
Alphabet == {97, 32, 13, 160}
\* The strings of at most n characters.
Strings(n) == UNION {[1 .. k -> Alphabet] : k \in 0 .. n}
\* The strings x + "a" * k + y, x and y of at most p characters, k <= c.
Padded(p, c) ==
  {x \o [i \in 1 .. k |-> 97] \o y : x \in Strings(p), y \in Strings(p),
                                     k \in 0 .. c}
\* The values: None, a number, and each of these strings.
Values(n, p, c) ==
  {None, Num(7)} \cup {Str(x) : x \in Strings(n) \cup Padded(p, c)}
MinLengths == {0, 2, 3, 10}

Input(fn, field, value, min, allow) ==
  [fn |-> fn, field |-> field, value |-> value, min |-> min, allow |-> allow]

Inputs(n, p, c) ==
  {Input("validate_string_length", "field", v, m, a) :
     v \in Values(n, p, c), m \in MinLengths, a \in BOOLEAN}
    \cup {Input("validate_name", "Category name", v, 2, FALSE) : v \in Values(n, p, c)}
    \cup {Input("validate_description", "Description", v, 10, TRUE) :
             v \in Values(n, p, c)}

InitV ==
  /\ games = << >>
  /\ session = EmptySession
  /\ req = NoRequest
  /\ resp = NoResponse
  /\ before = << >>
  /\ pc = "in"
  /\ vin \in Inputs(MaxLen, MaxPad, MaxCore)
  /\ vout = Returned(None)

Validated(outcome) ==
  /\ pc' = "out"
  /\ vout' = outcome
  /\ UNCHANGED <<games, session, req, resp, before, vin>>

call_validate_string_length ==
  /\ pc = "in"
  /\ vin.fn = "validate_string_length"
  /\ Validated(validate_string_length(vin.field, vin.value, vin.min, vin.allow))

call_validate_name ==
  /\ pc = "in"
  /\ vin.fn = "validate_name"
  /\ Validated(Category_validate_name(vin.value))

call_validate_description ==
  /\ pc = "in"
  /\ vin.fn = "validate_description"
  /\ Validated(Category_validate_description(vin.value))

NextV ==
  \/ call_validate_string_length
  \/ call_validate_name
  \/ call_validate_description

SpecV == InitV /\ [][NextV]_vars

(***************************************************************************)
(* Properties.                                                             *)
(***************************************************************************)
Responded(op) == pc = "responded" /\ req.op = op
IsDict == req.data.kind = "dict"
Present(f) == req.data.d[f] # Absent
\* The payload has the field with a value that is not null.
Given(f) == Present(f) /\ req.data.d[f] # None
PublisherExists == req.data.d.publisher_id.t = "int"
                     /\ req.data.d.publisher_id.n \in Publishers
CategoryExists == req.data.d.category_id.t = "int"
                    /\ req.data.d.category_id.n \in Categories
AllRequiredGiven ==
  Given("title") /\ Given("description") /\ Given("publisher_id")
    /\ Given("category_id")
\* No body, a body that is not JSON, or {}.
NothingProvided ==
  \/ req.data.kind \in {"none", "unparseable"}
  \/ IsDict /\ \A f \in Fields : ~Present(f)
TitleAccepted == ~Present("title") \/ Game_validate_title(req.data.d.title).ok
DescriptionAccepted ==
  ~Present("description") \/ Game_validate_description(req.data.d.description).ok

\* C1 (as stated): whenever create_game, update_game or delete_game answers
\* 400, 404 or 500, the session holds no uncommitted change when the handler
\* returns.
C1_NoPendingChangeOnFailure ==
  (pc = "responded" /\ req.op \in {"create_game", "update_game", "delete_game"}
     /\ resp.status \in {400, 404, 500})
    => session = EmptySession

\* C2: a create whose four required fields are given and whose publisher_id
\* names no Publisher answers 404 "Publisher not found" and leaves the games
\* table exactly as it was.
C2_UnknownPublisherLeavesTable ==
  (Responded("create_game") /\ IsDict /\ AllRequiredGiven /\ ~PublisherExists)
    => /\ resp = Error(404, Msg("Publisher not found", "", 0))
       /\ games = before

C2_Witness ==
  /\ Responded("create_game") /\ IsDict /\ AllRequiredGiven /\ ~PublisherExists
  /\ CategoryExists
  /\ resp.status = 404
  /\ DOMAIN before # {}

\* C3: in create_game, with the four required fields given, an existing
\* publisher and an unknown category answer 404 "Category not found"; an
\* unknown publisher and an unknown category answer 404 "Publisher not found".
C3_PublisherCheckedFirst ==
  (Responded("create_game") /\ IsDict /\ AllRequiredGiven)
    => /\ (PublisherExists /\ ~CategoryExists)
            => resp = Error(404, Msg("Category not found", "", 0))
       /\ (~PublisherExists /\ ~CategoryExists)
            => resp = Error(404, Msg("Publisher not found", "", 0))

C3_Witness ==
  /\ Responded("create_game") /\ IsDict /\ AllRequiredGiven
  /\ ~PublisherExists /\ ~CategoryExists
  /\ resp.error.text = "Publisher not found"

\* The first of title, description, publisher_id, category_id the payload
\* does not give.
FirstNotGiven ==
  IF ~Given("title") THEN "title"
  ELSE IF ~Given("description") THEN "description"
  ELSE IF ~Given("publisher_id") THEN "publisher_id"
  ELSE "category_id"

\* C4: a create with a non-empty payload object that lacks a required field
\* (missing or null) answers 400 "Missing required field: <name>" for the
\* first such field in the order title, description, publisher_id,
\* category_id, whatever the publisher and category ids are, and adds no row.
C4_FirstMissingFieldReported ==
  (Responded("create_game") /\ IsDict /\ ~NothingProvided /\ ~AllRequiredGiven)
    => /\ resp = Error(400, Msg("Missing required field", FirstNotGiven, 0))
       /\ games = before

C4_Witness ==
  /\ Responded("create_game") /\ IsDict
  /\ Given("title") /\ req.data.d.description = None /\ ~Present("publisher_id")
  /\ Present("category_id") /\ ~CategoryExists
  /\ resp.error.field = "description"

\* C5: an update of an existing game, and a create, with no body, a body that
\* is not JSON or the body {} answer 400 "No data provided" and leave the
\* games table as it was.
C5_EmptyPayloadRejected ==
  /\ (Responded("update_game") /\ req.id \in DOMAIN before /\ NothingProvided)
       => /\ resp = Error(400, Msg("No data provided", "", 0))
          /\ games = before
  /\ (Responded("create_game") /\ NothingProvided)
       => /\ resp = Error(400, Msg("No data provided", "", 0))
          /\ games = before

C5_Witness ==
  /\ Responded("update_game") /\ req.id \in DOMAIN before
  /\ IsDict /\ NothingProvided
  /\ resp.status = 400

\* C6: a step in which delete_game answers: for an id not in the table, 404
\* "Game not found" and the same table; for an id in the table, 200 and the
\* table without that row, the other rows as they were.  A step in which
\* get_game answers for an id not in the table answers 404.  An id enters the
\* table only in a step in which create_game answers 201 with that id.
C6_Step ==
  /\ (pc' = "responded" /\ req'.op = "delete_game" /\ req'.id \notin DOMAIN games)
       => /\ resp' = Error(404, Msg("Game not found", "", 0))
          /\ games' = games
  /\ (pc' = "responded" /\ req'.op = "delete_game" /\ req'.id \in DOMAIN games)
       => /\ resp'.status = 200
          /\ DOMAIN games' = DOMAIN games \ {req'.id}
          /\ \A i \in DOMAIN games' : games'[i] = games[i]
  /\ (pc' = "responded" /\ req'.op = "get_game" /\ req'.id \notin DOMAIN games)
       => resp' = Error(404, Msg("Game not found", "", 0))
  /\ \A i \in GameIds :
       (i \notin DOMAIN games /\ i \in DOMAIN games')
         => /\ pc' = "responded" /\ req'.op = "create_game"
            /\ resp'.status = 201 /\ resp'.game.id = i

C6_DeleteThenNotFound == [][C6_Step]_vars

C6_Witness ==
  /\ Responded("delete_game")
  /\ resp.status = 200
  /\ req.id \in DOMAIN before
  /\ DOMAIN games # {}

\* C7: a create with an accepted title and description, an existing publisher
\* and category and no star_rating answers 201 with a record that has a null
\* star_rating and the payload's title, description, publisher_id and
\* category_id; get_game on the record's id, on the table the create left,
\* answers 200 with the same record.
C7_CreateThenGet ==
  (Responded("create_game") /\ IsDict /\ AllRequiredGiven /\ PublisherExists
     /\ CategoryExists /\ TitleAccepted /\ DescriptionAccepted
     /\ ~Present("star_rating"))
    => /\ resp.status = 201
       /\ resp.game.star_rating = None
       /\ resp.game.title = req.data.d.title
       /\ resp.game.description = req.data.d.description
       /\ resp.game.publisher_id = req.data.d.publisher_id
       /\ resp.game.category_id = req.data.d.category_id
       /\ resp.game.id \in DOMAIN games \ DOMAIN before
       /\ get_game_result(games, EmptySession, resp.game.id).resp
            = Response(200, NoMsg, resp.game, {}, "")

C7_Witness ==
  /\ Responded("create_game") /\ IsDict /\ AllRequiredGiven
  /\ ~Present("star_rating")
  /\ resp.status = 201
  /\ DOMAIN before # {}

\* C8: an update that answers 200 leaves in the game each payload field's
\* value and, for the fields the payload lacks, the value the game had; a
\* title or description the entity refuses ends the request with 400 before
\* the publisher is looked at; a publisher_id that names no Publisher ends it
\* with 404 "Publisher not found", then a category_id that names no Category
\* with 404 "Category not found", and the table is as it was.
C8_PartialUpdate ==
  (Responded("update_game") /\ IsDict /\ req.id \in DOMAIN before
     /\ ~NothingProvided)
    => /\ resp.status = 200
            => /\ req.id \in DOMAIN games
               /\ \A f \in Fields :
                    games[req.id][f] = IF Present(f) THEN req.data.d[f]
                                       ELSE before[req.id][f]
       /\ ~(TitleAccepted /\ DescriptionAccepted)
            => resp.status = 400 /\ games = before
       /\ (TitleAccepted /\ DescriptionAccepted
             /\ Present("publisher_id") /\ ~PublisherExists)
            => /\ resp = Error(404, Msg("Publisher not found", "", 0))
               /\ games = before
       /\ (TitleAccepted /\ DescriptionAccepted
             /\ (Present("publisher_id") => PublisherExists)
             /\ Present("category_id") /\ ~CategoryExists)
            => /\ resp = Error(404, Msg("Category not found", "", 0))
               /\ games = before

C8_Witness ==
  /\ Responded("update_game") /\ IsDict /\ req.id \in DOMAIN before
  /\ resp.status = 200
  /\ Present("title") /\ req.data.d.title # before[req.id].title
  /\ Present("publisher_id")
       /\ req.data.d.publisher_id # before[req.id].publisher_id
  /\ ~Present("star_rating") /\ before[req.id].star_rating = Num(5)
  /\ ~Present("category_id")

\* The length of s without its leading and trailing whitespace.
TrimmedLength(s) ==
  LET solid == {i \in 1 .. Len(s) : s[i] \notin Whitespace}
  IN  IF solid = {} THEN 0
      ELSE (CHOOSE i \in solid : \A j \in solid : j <= i)
             - (CHOOSE i \in solid : \A j \in solid : i <= j) + 1

\* The reference of C9 for a call with the given minimum and absence flag.
Reference(field, value, min, allow) ==
  IF value = None
  THEN IF allow THEN Returned(None) ELSE ValueError("cannot be empty", field, 0)
  ELSE IF value.t # "str" THEN ValueError("must be a string", field, 0)
  ELSE IF TrimmedLength(value.s) < min
  THEN ValueError("must be at least", field, min)
  ELSE Returned(value)

\* C9: validate_string_length returns what the reference returns on every
\* input; Category's name is validated with minimum 2 and absence refused,
\* Category's description with minimum 10 and absence allowed.
C9_ValidatorMatchesReference ==
  pc = "out"
    => vout = CASE vin.fn = "validate_string_length"
                     -> Reference(vin.field, vin.value, vin.min, vin.allow)
                [] vin.fn = "validate_name"
                     -> Reference("Category name", vin.value, 2, FALSE)
                [] vin.fn = "validate_description"
                     -> Reference("Description", vin.value, 10, TRUE)

C9_Witness ==
  /\ pc = "out"
  /\ vin.fn = "validate_description"
  /\ vout.ok
  /\ vout.value.t = "str"
  /\ Len(vout.value.s) > 10
  /\ vout.value.s[1] = 13
  /\ vout.value.s[Len(vout.value.s)] = 160

\* C10: every row of the games table names a publisher that is in the
\* publishers table and a category that is in the categories table.
C10_ReferencesExist ==
  \A i \in DOMAIN games :
    /\ games[i].publisher_id.t = "int" /\ games[i].publisher_id.n \in Publishers
    /\ games[i].category_id.t = "int" /\ games[i].category_id.n \in Categories

C10_Witness ==
  /\ Responded("update_game")
  /\ resp.status = 200
  /\ Present("publisher_id") /\ Present("category_id")
  /\ games[req.id].publisher_id # before[req.id].publisher_id
  /\ Cardinality(DOMAIN games) = 2

====
